---------------------------- MODULE Spec2Model ----------------------------
(***************************************************************************)
(* Model of the weather.com scraper of WeatherAssistant: fetchLocations    *)
(* (location search decoding) and fetchWeather (markup extraction and      *)
(* normalisation), as found in the weather module of the repository;       *)
(* weatherTUI, the command-line run built on the two; and                  *)
(* getCalendarClient of googleAuth.ts, which the run calls for --calendar. *)
(*                                                                         *)
(* Text is a sequence of one-character strings (a label may also be one    *)
(* opaque token such as "Sunny").  A JavaScript value that may be null,    *)
(* NaN, a number or a string is a record [kind, val], because the same     *)
(* field can hold values of different JavaScript types.                    *)
(***************************************************************************)
EXTENDS Integers, Sequences, FiniteSets, TLC

VARIABLES
    wpc,        \* position of the fetchWeather invocation
    placeId,    \* its argument
    page,       \* weatherPage.data: the markup the GET returned
    dom,        \* the parsed document held by $ (cheerio.load)
    segs,       \* the locals morning, afternoon, evening, overnight
    weather,    \* the value fetchWeather resolves with: {today, next}
    diag,       \* the console.error stream (warnings), in emission order
    lpc,        \* position of the fetchLocations invocation
    query,      \* its argument
    response,   \* locationResponse.data.dal.getSunV3LocationSearchUrlConfig
    locations,  \* the value fetchLocations resolves with
    tpc,        \* position of the weatherTUI run
    positional, \* argv._ : the positional command-line arguments
    toCalendar, \* argv.calendar
    isTTY,      \* process.stdout.isTTY
    locationChoices,    \* the local locationChoices (the value of each choice)
    selectedLocation,   \* the local selectedLocation
    effects,    \* what the run did to the outside, in order: messages
                \* printed, prompts opened, flows started, files written
    dpc,        \* position of the displayWeather invocation
    events,     \* the arguments of the calendar.events.insert calls, in order
    gpc,        \* position of the getCalendarClient invocation
    cached,     \* what readFile(TOKEN_PATH) gave
    tokens,     \* what runInteractiveAuth resolved with
    tokenFile,  \* what the invocation wrote to TOKEN_PATH
    client,     \* the value getCalendarClient resolves with
    calls,      \* concurrent invocations: each one's function, position,
                \* argument, response and result
    net,        \* the requests those invocations issued, in order
    stream,     \* their shared console.error stream: [call, warning]
    promise,    \* the promise runInteractiveAuth returns: state and value
    server,     \* the local http server of the flow
    redirectUri,    \* the local redirectUri
    exchanges,  \* the oAuth2.getToken calls awaited by request handlers
    authLog     \* what happened in the flow, in order: requests received
                \* and exchanges answered

weatherVars == <<wpc, placeId, page, dom, segs, weather, diag>>
locationVars == <<lpc, query, response, locations>>
tuiVars == <<tpc, positional, toCalendar, isTTY, locationChoices, selectedLocation,
             effects, dpc, events>>
calendarVars == <<gpc, cached, tokens, tokenFile, client>>
callVars == <<calls, net, stream>>

authVars == <<promise, server, redirectUri, exchanges, authLog>>

vars == <<weatherVars, locationVars, tuiVars, calendarVars, callVars, authVars>>

-----------------------------------------------------------------------------
(* Bounds of the model *)

\* longest leaf text, in characters, drawn for a temperature node
MaxLen == 3
\* most temperature nodes inside one container
MaxTemps == 2
\* most li rows inside the today card
MaxRows == 4
\* most li rows of the following-days table
MaxFollowing == 5
\* most places in one search response
MaxPlaces == 2
\* most keys under getSunV3LocationSearchUrlConfig
MaxKeys == 2

-----------------------------------------------------------------------------
(* JavaScript values *)

Null == [kind |-> "null", val |-> <<>>]
NaN == [kind |-> "NaN", val |-> <<>>]
Num(n) == [kind |-> "number", val |-> n]
Str(s) == [kind |-> "string", val |-> s]

Undefined == [kind |-> "undefined", val |-> <<>>]

IsNull(v) == v.kind = "null"
\* !v
Falsy(v) ==
    \/ v.kind \in {"undefined", "null", "NaN"}
    \/ v.kind = "number" /\ v.val = 0
    \/ v.kind = "string" /\ v.val = <<>>
IsInteger(v) == v.kind = "number"

-----------------------------------------------------------------------------
(* Strings *)

WhiteSpace == {" "}
Digits == {"0", "1", "2", "3", "4", "5", "6", "7", "8", "9"}
Degree == "°"

DigitVal(c) ==
    CASE c = "0" -> 0 [] c = "1" -> 1 [] c = "2" -> 2 [] c = "3" -> 3
      [] c = "4" -> 4 [] c = "5" -> 5 [] c = "6" -> 6 [] c = "7" -> 7
      [] c = "8" -> 8 [] c = "9" -> 9

RECURSIVE TrimStart(_)
TrimStart(s) ==
    IF s # <<>> /\ Head(s) \in WhiteSpace THEN TrimStart(Tail(s)) ELSE s

RECURSIVE TrimEnd(_)
TrimEnd(s) ==
    IF s # <<>> /\ s[Len(s)] \in WhiteSpace
    THEN TrimEnd(SubSeq(s, 1, Len(s) - 1))
    ELSE s

\* String.prototype.trim
Trim(s) == TrimEnd(TrimStart(s))

\* String.prototype.replace(pattern, "") with a string pattern: only the
\* first occurrence of the one-token pattern is removed
RECURSIVE ReplaceFirst(_, _)
ReplaceFirst(s, c) ==
    IF s = <<>> THEN <<>>
    ELSE IF Head(s) = c THEN Tail(s)
    ELSE <<Head(s)>> \o ReplaceFirst(Tail(s), c)

\* the longest prefix of decimal digits
RECURSIVE DigitPrefix(_)
DigitPrefix(s) ==
    IF s # <<>> /\ Head(s) \in Digits
    THEN <<Head(s)>> \o DigitPrefix(Tail(s))
    ELSE <<>>

RECURSIVE DigitsValue(_, _)
DigitsValue(s, acc) ==
    IF s = <<>> THEN acc ELSE DigitsValue(Tail(s), 10 * acc + DigitVal(Head(s)))

\* parseInt(s, 10): leading white space is skipped, one sign is accepted,
\* the longest digit prefix is read and the rest ignored; no digit gives NaN
parseInt(s) ==
    LET t == TrimStart(s)
        neg == t # <<>> /\ Head(t) = "-"
        u == IF t # <<>> /\ Head(t) \in {"-", "+"} THEN Tail(t) ELSE t
        d == DigitPrefix(u)
    IN  IF d = <<>> THEN NaN
        ELSE Num(IF neg THEN 0 - DigitsValue(d, 0) ELSE DigitsValue(d, 0))

normalizeTemperature(temp) ==
    IF Len(temp) > 0 THEN parseInt(ReplaceFirst(temp, Degree)) ELSE Null

-----------------------------------------------------------------------------
(* The parsed document.                                                    *)
(*                                                                         *)
(* Only the nodes the SELECTORS table can reach are kept.  A document is   *)
(*   [currentTemp, currentCondition, time : Seq(Text),                     *)
(*    todayDetails : Seq(Card), today : Seq(Seq(Row)),                     *)
(*    followingDays : Seq(Row)]                                            *)
(* where each sequence lists, in document order, the nodes its selector    *)
(* matches; today lists the cards matching SELECTORS.today, each card the  *)
(* li children of its ul.  A Card or Row maps a selector name to the       *)
(* nodes matching it inside that element.  A node matched by a text        *)
(* selector is its text(); a node matched by chanceOfRain or percentage    *)
(* is the sequence of its child nodes [el, text], el telling an element    *)
(* child from a text node.                                                 *)
(***************************************************************************)

RECURSIVE Concat(_)
Concat(ss) == IF ss = <<>> THEN <<>> ELSE Head(ss) \o Concat(Tail(ss))

\* $(selector, context): the nodes matching selector inside the elements of
\* context, in document order (none when context is empty)
Find(context, selector) ==
    Concat([i \in DOMAIN context |-> context[i][selector]])

\* text() of a node given by its children: the text of all its descendants
NodeText(node) == Concat([i \in DOMAIN node |-> node[i].text])

\* console.error(`Warning: Selector not found: ${selector}`); field is the
\* call site, kept to tell the warnings of different lookups apart
Warning(selector, field) == [selector |-> selector, field |-> field]

\* getText without its console.error line
getText_NoWarning(nodes, selector, field) ==
    IF Len(nodes) > 0
    THEN LET text == Trim(Concat(nodes))
         IN  [val |-> IF text # <<>> THEN Str(text) ELSE Null, diag |-> <<>>]
    ELSE [val |-> Null, diag |-> <<>>]

getText(nodes, selector, field) ==
    IF Len(nodes) > 0
    THEN LET text == Trim(Concat(nodes))
         IN  [val |-> IF text # <<>> THEN Str(text) ELSE Null, diag |-> <<>>]
    ELSE [val |-> Null, diag |-> <<Warning(selector, field)>>]

\* .children().remove(): the element children go, the text nodes stay
RemoveChildren(nodes) ==
    [i \in DOMAIN nodes |-> SelectSeq(nodes[i], LAMBDA c : ~c.el)]

\* the chain without .clone(): the children are removed from the document
CloneAndStrip_InPlace(nodes) ==
    [read |-> RemoveChildren(nodes), left |-> RemoveChildren(nodes)]

\* $el.clone().children().remove().end(): read is the stripped copy that
\* text() is taken of, left is what $el holds in the document afterwards
CloneAndStrip(nodes) ==
    [read |-> RemoveChildren(nodes), left |-> nodes]

getPercentage(nodes, selector, field) ==
    IF Len(nodes) = 0
    THEN [val |-> Null, diag |-> <<Warning(selector, field)>>]
    ELSE LET copy == CloneAndStrip(nodes).read
         IN  [val |-> Str(Trim(Concat([i \in DOMAIN copy |-> NodeText(copy[i])]))),
              diag |-> <<>>]

getTemp(nodes, selector, field) ==
    LET text == getText(nodes, selector, field)
    IN  [val |-> normalizeTemperature(IF IsNull(text.val) THEN <<>> ELSE text.val.val),
         diag |-> text.diag]

\* nodes.first().text() and nodes.last().text(): "" for an empty selection
FirstText(nodes) == IF nodes = <<>> THEN <<>> ELSE nodes[1]
\* nodes.first() read for the low as well
LastText_First(nodes) == IF nodes = <<>> THEN <<>> ELSE nodes[1]
LastText(nodes) == IF nodes = <<>> THEN <<>> ELSE nodes[Len(nodes)]

-----------------------------------------------------------------------------
(* fetchWeather: the extraction that follows cheerio.load *)

Field(part, index, name) == [part |-> part, index |-> index, name |-> name]

SegmentNames == <<"Morning", "Afternoon", "Evening", "Overnight">>

\* the rows counted from zero: segment k reads the row after row k
SegmentEl_ZeroBased(doc, segment) ==
    Concat([i \in DOMAIN doc.today |->
              IF segment + 1 <= Len(doc.today[i]) THEN <<doc.today[i][segment + 1]>>
              ELSE <<>>])

\* $(`${todayCard} ul > li:nth-child(${segment})`)
SegmentEl(doc, segment) ==
    Concat([i \in DOMAIN doc.today |->
              IF segment <= Len(doc.today[i]) THEN <<doc.today[i][segment]>> ELSE <<>>])

\* segmentEl.is(SELECTORS.periodOfDay): some element of the selection matches
Is(elements) == \E i \in DOMAIN elements : elements[i].active

\* active read from the whole document, $(SELECTORS.periodOfDay).length > 0,
\* instead of from the segment's own element
getSegmentData_AnyActive(doc, segment) ==
    LET segmentEl == SegmentEl(doc, segment)
        temp == getTemp(Find(segmentEl, "temperature"), "temperature",
                        Field("segment", segment, "temp"))
        condition == getText(Find(segmentEl, "condition"), "condition",
                             Field("segment", segment, "condition"))
        rain == getPercentage(Find(segmentEl, "chanceOfRain"), "chanceOfRain",
                              Field("segment", segment, "rain"))
    IN  [temp |-> temp.val, condition |-> condition.val, rain |-> rain.val,
         active |-> \E c \in DOMAIN doc.today : Is(doc.today[c]),
         diag |-> temp.diag \o condition.diag \o rain.diag]

getSegmentData(doc, segment) ==
    LET segmentEl == SegmentEl(doc, segment)
        temp == getTemp(Find(segmentEl, "temperature"), "temperature",
                        Field("segment", segment, "temp"))
        condition == getText(Find(segmentEl, "condition"), "condition",
                             Field("segment", segment, "condition"))
        rain == getPercentage(Find(segmentEl, "chanceOfRain"), "chanceOfRain",
                              Field("segment", segment, "rain"))
    IN  [temp |-> temp.val, condition |-> condition.val, rain |-> rain.val,
         active |-> Is(segmentEl),
         diag |-> temp.diag \o condition.diag \o rain.diag]

\* independent ifs instead of else if: the last flagged segment wins
currentDayStage_LastWins(morning, afternoon, evening, overnight) ==
    IF overnight.active THEN Str(<<"Overnight">>)
    ELSE IF evening.active THEN Str(<<"Evening">>)
    ELSE IF afternoon.active THEN Str(<<"Afternoon">>)
    ELSE IF morning.active THEN Str(<<"Morning">>)
    ELSE Null

\* the if / else if chain over morning.active .. overnight.active
currentDayStage(morning, afternoon, evening, overnight) ==
    IF morning.active THEN Str(<<"Morning">>)
    ELSE IF afternoon.active THEN Str(<<"Afternoon">>)
    ELSE IF evening.active THEN Str(<<"Evening">>)
    ELSE IF overnight.active THEN Str(<<"Overnight">>)
    ELSE Null

\* getText(SELECTORS.time)?.replace("As of ", "") || null
currentTimeOf(text) ==
    IF IsNull(text) THEN Null
    ELSE LET t == ReplaceFirst(text.val, "As of ")
         IN  IF t # <<>> THEN Str(t) ELSE Null

\* $(SELECTORS.followingDays).slice(1)
OutlookRows(doc) == SubSeq(doc.followingDays, 2, Len(doc.followingDays))

\* the body of the .each callback, i counted from 1
OutlookDay(dayCard, i) ==
    LET date == getText(dayCard.date, "h3 span", Field("next", i, "date"))
        condition == getText(dayCard.condition, "condition", Field("next", i, "condition"))
        rain == getPercentage(dayCard.chanceOfRain, "chanceOfRain",
                              Field("next", i, "chanceOfRain"))
    IN  [day |-> [date |-> date.val,
                  condition |-> condition.val,
                  chanceOfRain |-> rain.val,
                  tempHigh |-> normalizeTemperature(FirstText(dayCard.temperature)),
                  tempLow |-> normalizeTemperature(LastText(dayCard.temperature))],
         diag |-> date.diag \o condition.diag \o rain.diag]

\* what the document holds once every getPercentage call has run
DocumentAfter(doc) ==
    LET strip(el, selector) ==
            [el EXCEPT ![selector] = CloneAndStrip(el[selector]).left]
    IN  [doc EXCEPT
           !.todayDetails = [i \in DOMAIN doc.todayDetails |->
                               strip(doc.todayDetails[i], "percentage")],
           !.today = [c \in DOMAIN doc.today |->
                        [r \in DOMAIN doc.today[c] |->
                           IF r <= Len(SegmentNames)
                           THEN strip(doc.today[c][r], "chanceOfRain")
                           ELSE doc.today[c][r]]],
           !.followingDays = [r \in DOMAIN doc.followingDays |->
                                IF r >= 2
                                THEN strip(doc.followingDays[r], "chanceOfRain")
                                ELSE doc.followingDays[r]]]

\* everything fetchWeather computes from the loaded document
Extract(doc) ==
    LET todayDetailsCard == doc.todayDetails
        currentTemp == getTemp(doc.currentTemp, "currentTemp",
                               Field("today", 0, "currentTemp"))
        currentFeltTemp == getTemp(Find(todayDetailsCard, "temperature"), "temperature",
                                   Field("today", 0, "currentFeltTemp"))
        currentCondition == getText(doc.currentCondition, "currentCondition",
                                    Field("today", 0, "currentCondition"))
        currentTime == getText(doc.time, "time", Field("today", 0, "currentTime"))
        currentUvIndex == getText(Find(todayDetailsCard, "uvIndex"), "uvIndex",
                                  Field("today", 0, "currentUvIndex"))
        currentWind == getText(Find(todayDetailsCard, "wind"), "wind",
                               Field("today", 0, "currentWind"))
        currentHumidity == getPercentage(Find(todayDetailsCard, "percentage"), "percentage",
                                         Field("today", 0, "currentHumidity"))
        highTemp == normalizeTemperature(FirstText(Find(todayDetailsCard, "temperature")))
        lowTemp == normalizeTemperature(LastText(Find(todayDetailsCard, "temperature")))
        morning == getSegmentData(doc, 1)
        afternoon == getSegmentData(doc, 2)
        evening == getSegmentData(doc, 3)
        overnight == getSegmentData(doc, 4)
        rows == OutlookRows(doc)
    IN  [today |->
           [tempHigh |-> highTemp,
            tempLow |-> lowTemp,
            currentTime |-> currentTimeOf(currentTime.val),
            currentUvIndex |-> currentUvIndex.val,
            currentCondition |-> currentCondition.val,
            currentTemp |-> currentTemp.val,
            currentFeltTemp |-> currentFeltTemp.val,
            currentWind |-> currentWind.val,
            currentHumidity |-> currentHumidity.val,
            morningTemperature |-> morning.temp,
            morningCondition |-> morning.condition,
            morningChanceOfRain |-> morning.rain,
            afternoonTemperature |-> afternoon.temp,
            afternoonCondition |-> afternoon.condition,
            afternoonChanceOfRain |-> afternoon.rain,
            eveningTemperature |-> evening.temp,
            eveningCondition |-> evening.condition,
            eveningChanceOfRain |-> evening.rain,
            overnightTemperature |-> overnight.temp,
            overnightCondition |-> overnight.condition,
            overnightChanceOfRain |-> overnight.rain,
            currentDayStage |-> currentDayStage(morning, afternoon, evening, overnight)],
         next |-> [i \in DOMAIN rows |-> OutlookDay(rows[i], i).day],
         segs |-> <<morning, afternoon, evening, overnight>>,
         diag |-> currentTemp.diag \o currentFeltTemp.diag \o currentCondition.diag
                    \o currentTime.diag \o currentUvIndex.diag \o currentWind.diag
                    \o currentHumidity.diag
                    \o morning.diag \o afternoon.diag \o evening.diag \o overnight.diag
                    \o Concat([i \in DOMAIN rows |-> OutlookDay(rows[i], i).diag]),
         dom |-> DocumentAfter(doc)]

-----------------------------------------------------------------------------
(* fetchLocations: decoding of the search response.                        *)
(*                                                                         *)
(* response lists the values of dalResponse in Object.keys order; each is  *)
(* [hasData, hasLocation, hasPlaceId, placeId, city, adminDistrict,        *)
(* country], the flags telling whether .data, .data.location and           *)
(* .data.location.placeId are defined.                                     *)
(***************************************************************************)

\* arr[i] inside a template literal: a missing element prints as undefined
Printed(arr, i) == IF i <= Len(arr) THEN arr[i] ELSE "undefined"

\* `${city[i]}, ${adminDistrict[i]}, ${country[i]}`
LocationName(locationsRaw, i) ==
    <<Printed(locationsRaw.city, i), ", ",
      Printed(locationsRaw.adminDistrict, i), ", ",
      Printed(locationsRaw.country, i)>>

\* Object.keys(dalResponse)[0]: position 1 when there is a key, else undefined
dynamicKey(dalResponse) == IF Len(dalResponse) > 0 THEN 1 ELSE 0

\* the loop reading index 0 of the name arrays for every place
Locations_FirstName(locationsRaw) ==
    IF locationsRaw.hasLocation /\ locationsRaw.hasPlaceId
    THEN [i \in 1..Len(locationsRaw.placeId) |->
            [placeId |-> locationsRaw.placeId[i], name |-> LocationName(locationsRaw, 1)]]
    ELSE <<>>

\* no guard on placeId: one Location per index of city
Locations_ByCity(locationsRaw) ==
    [i \in 1..Len(locationsRaw.city) |->
       [placeId |-> Printed(locationsRaw.placeId, i), name |-> LocationName(locationsRaw, i)]]

\* the for loop pushing one Location per index of placeId
Locations(locationsRaw) ==
    IF locationsRaw.hasLocation /\ locationsRaw.hasPlaceId
    THEN [i \in 1..Len(locationsRaw.placeId) |->
            [placeId |-> locationsRaw.placeId[i], name |-> LocationName(locationsRaw, i)]]
    ELSE <<>>

\* lines 284-297: a TypeError when dalResponse has no key or the keyed value
\* has no data, else the list of locations
Decode(dalResponse) ==
    LET key == dynamicKey(dalResponse)
    IN  IF key = 0 \/ ~dalResponse[key].hasData
        THEN [threw |-> TRUE, locations |-> <<>>]
        ELSE [threw |-> FALSE, locations |-> Locations(dalResponse[key])]

-----------------------------------------------------------------------------
(* The inputs the model draws: fetched documents *)

TempChars == {"7", "2", Degree, " ", "x"}

\* every text of at most n characters
TextsUpTo(n) == UNION {[1..k -> TempChars] : k \in 0..n}

SeqsUpTo(S, lo, hi) == UNION {[1..k -> S] : k \in lo..hi}

T72 == <<"7", "2", Degree>>
T65 == <<"6", "5", Degree>>
T70 == <<"7", "0", Degree>>

\* the texts of the nodes of a selection that matches several temperature nodes
SampleTemps == {T72, T65, <<Degree>>, <<" ">>}

\* one temperature selection: no node, one node of any text, or several nodes
TempSelections ==
    {<<>>} \cup {<<t>> : t \in TextsUpTo(MaxLen)} \cup SeqsUpTo(SampleTemps, 2, MaxTemps)

ElementChild(text) == [el |-> TRUE, text |-> text]
TextChild(text) == [el |-> FALSE, text |-> text]

\* <div ..precip..><span>Chance of Rain</span>20%</div>
IconThenText == <<ElementChild(<<"Chance of Rain">>), TextChild(<<"2", "0", "%">>)>>
TextOnly == <<TextChild(<<" ", "3", "%", " ">>)>>
ElementOnly == <<ElementChild(<<"icon">>)>>
TextAroundElement == <<TextChild(<<"1">>), ElementChild(<<"x">>), TextChild(<<"%">>)>>

LabelSelections == {<<>>, <<<<"Sunny">>>>, <<<<" ">>>>}

\* the today-details cards: any temperature selection with the other nodes
\* present, and a few temperature selections with any of the others missing
Cards ==
    {[temperature |-> t, uvIndex |-> <<<<"5 of 11">>>>, wind |-> <<<<"8 mph">>>>,
      percentage |-> <<IconThenText>>] : t \in TempSelections}
    \cup
    {[temperature |-> t, uvIndex |-> u, wind |-> w, percentage |-> p] :
        t \in {<<>>, <<T72>>, <<T70, T72, T65>>}, u \in {<<>>, <<<<"5 of 11">>>>},
        w \in {<<>>, <<<<"8 mph">>>>}, p \in {<<>>, <<IconThenText>>, <<ElementOnly>>}}

FullRow ==
    [temperature |-> <<T72>>, condition |-> <<<<"Sunny">>>>,
     chanceOfRain |-> <<IconThenText>>, date |-> <<>>, active |-> FALSE]
OddRow ==
    [temperature |-> <<<<Degree>>>>, condition |-> <<>>,
     chanceOfRain |-> <<TextAroundElement>>, date |-> <<>>, active |-> FALSE]

\* the li rows of the today card: any content, flagged active or not
TodayRows ==
    {[r EXCEPT !.active = a] : r \in {FullRow, OddRow}, a \in BOOLEAN}

FullDay ==
    [temperature |-> <<T72, T65>>, condition |-> <<<<"Rain">>>>,
     chanceOfRain |-> <<IconThenText>>, date |-> <<<<"Mon 03">>>>, active |-> FALSE]
ColdFirstDay ==
    [temperature |-> <<T65, T72>>, condition |-> <<<<"Sunny">>>>,
     chanceOfRain |-> <<TextOnly>>, date |-> <<<<"Tue 04">>>>, active |-> FALSE]
OneTempDay ==
    [temperature |-> <<<<" ">>>>, condition |-> <<>>,
     chanceOfRain |-> <<ElementOnly>>, date |-> <<<<" ">>>>, active |-> FALSE]

FollowingRows == {FullDay, ColdFirstDay, OneTempDay}

BaseCard ==
    [temperature |-> <<T70, T72, T65>>, uvIndex |-> <<<<"5 of 11">>>>,
     wind |-> <<<<"8 mph">>>>, percentage |-> <<IconThenText>>]

\* a typical page, and the page on which no selector matches
BaseDocument ==
    [currentTemp |-> <<T70>>, currentCondition |-> <<<<"Sunny">>>>,
     time |-> <<<<"As of ", "9:00">>>>, todayDetails |-> <<BaseCard>>,
     today |-> <<<<FullRow, [FullRow EXCEPT !.active = TRUE], FullRow, FullRow>>>>,
     followingDays |-> <<FullDay, FullDay, ColdFirstDay>>]
BlankDocument ==
    [currentTemp |-> <<>>, currentCondition |-> <<>>, time |-> <<>>,
     todayDetails |-> <<>>, today |-> <<>>, followingDays |-> <<>>]

\* the documents that differ from the typical page in one part only
HeaderDocuments ==
    {[BaseDocument EXCEPT !.currentTemp = t] :
        t \in {<<>>} \cup {<<x>> : x \in TextsUpTo(MaxLen)}}
    \cup
    {[BaseDocument EXCEPT !.currentCondition = c, !.time = m] :
        c \in LabelSelections,
        m \in {<<>>, <<<<"As of ", "9:00">>>>, <<<<"As of ">>>>}}
DetailsDocuments ==
    {[BaseDocument EXCEPT !.todayDetails = d] : d \in {<<>>} \cup {<<c>> : c \in Cards}}
TodayDocuments ==
    {[BaseDocument EXCEPT !.today = t] :
        t \in {<<>>} \cup {<<c>> : c \in SeqsUpTo(TodayRows, 0, MaxRows)}}
FollowingDocuments ==
    {[BaseDocument EXCEPT !.followingDays = f] : f \in SeqsUpTo(FollowingRows, 0, MaxFollowing)}
\* the documents in which each part is either typical or missing
PartDocuments ==
    {[currentTemp |-> h.currentTemp, currentCondition |-> h.currentCondition,
      time |-> h.time, todayDetails |-> d.todayDetails, today |-> t.today,
      followingDays |-> f.followingDays] :
        h \in {BaseDocument, BlankDocument}, d \in {BaseDocument, BlankDocument},
        t \in {BaseDocument, BlankDocument}, f \in {BaseDocument, BlankDocument}}

Documents ==
    HeaderDocuments \cup DetailsDocuments \cup TodayDocuments
        \cup FollowingDocuments \cup PartDocuments

PlaceIds == {"p1", "p2"}

-----------------------------------------------------------------------------
(* The inputs the model draws: search responses *)

Cities == {"Gary", "Paris"}

LocationData(placeIds, cities) ==
    [hasData |-> TRUE, hasLocation |-> TRUE, hasPlaceId |-> TRUE,
     placeId |-> placeIds, city |-> cities,
     adminDistrict |-> [i \in DOMAIN cities |-> "IN"],
     country |-> [i \in DOMAIN cities |-> "US"]]

\* parallel arrays of n places
ParallelData ==
    UNION {{LocationData(p, c) : p \in [1..n -> PlaceIds], c \in [1..n -> Cities]} :
             n \in 0..MaxPlaces}

NoData == [LocationData(<<>>, <<>>) EXCEPT !.hasData = FALSE, !.hasLocation = FALSE,
                                           !.hasPlaceId = FALSE]
NoLocation == [LocationData(<<>>, <<>>) EXCEPT !.hasLocation = FALSE, !.hasPlaceId = FALSE]
NoPlaceId == [LocationData(<<>>, <<"Gary">>) EXCEPT !.hasPlaceId = FALSE]
\* a city array shorter than placeId
Ragged == LocationData(<<"p1", "p2">>, <<"Gary">>)

KeyedValues == ParallelData \cup {NoData, NoLocation, NoPlaceId, Ragged}
\* what the keys after the first may hold
OtherValues == {NoLocation, LocationData(<<"p2">>, <<"Paris">>), LocationData(<<>>, <<>>)}

Responses ==
    {<<>>} \cup
    UNION {{<<v>> \o rest : v \in KeyedValues, rest \in [1..k -> OtherValues]} :
             k \in 0..(MaxKeys - 1)}

Queries == {"Gary, Indiana", "46402"}

-----------------------------------------------------------------------------
(* The state machine *)

NoDocument == BlankDocument
NoWeather == [today |-> <<>>, next |-> <<>>]
NoLocationSelected == [placeId |-> "none", name |-> <<>>]
NoTokens == [refresh_token |-> "none"]
NoClient == [version |-> "none", credentials |-> NoTokens]
CallIds == {1, 2}
NoCall == [fn |-> "none", pc |-> "idle", arg |-> "none", input |-> <<>>, result |-> <<>>]

Init ==
    /\ wpc = "idle"
    /\ placeId = "none"
    /\ page = NoDocument
    /\ dom = NoDocument
    /\ segs = <<>>
    /\ weather = NoWeather
    /\ diag = <<>>
    /\ lpc = "idle"
    /\ query = "none"
    /\ response = <<>>
    /\ locations = <<>>
    /\ tpc = "start"
    /\ positional = <<>>
    /\ toCalendar = FALSE
    /\ isTTY = FALSE
    /\ locationChoices = <<>>
    /\ selectedLocation = NoLocationSelected
    /\ effects = <<>>
    /\ dpc = "idle"
    /\ events = <<>>
    /\ gpc = "idle"
    /\ cached = <<>>
    /\ tokens = NoTokens
    /\ tokenFile = <<>>
    /\ client = NoClient
    /\ calls = [c \in CallIds |-> NoCall]
    /\ net = <<>>
    /\ stream = <<>>
    /\ promise = [state |-> "none", value |-> NoTokens]
    /\ server = "none"
    /\ redirectUri = ""
    /\ exchanges = {}
    /\ authLog = <<>>

\* fetchWeather(placeId) up to the await of axios.get
CallFetchWeather(p) ==
    /\ wpc = "idle"
    /\ wpc' = "awaitPage"
    /\ placeId' = p
    /\ UNCHANGED <<page, dom, segs, weather, diag, locationVars>>

\* the GET resolves with markup d: cheerio.load, the extraction, the return
PageArrives(d) ==
    /\ wpc = "awaitPage"
    /\ LET out == Extract(d)
       IN  /\ page' = d
           /\ dom' = out.dom
           /\ segs' = out.segs
           /\ weather' = [today |-> out.today, next |-> out.next]
           /\ diag' = diag \o out.diag
    /\ wpc' = "returned"
    /\ UNCHANGED <<placeId, locationVars>>

\* the GET rejects: the rejection leaves fetchWeather uncaught
PageFails ==
    /\ wpc = "awaitPage"
    /\ wpc' = "rejected"
    /\ UNCHANGED <<placeId, page, dom, segs, weather, diag, locationVars>>

\* fetchLocations(query) up to the await of axios.post
CallFetchLocations(q) ==
    /\ lpc = "idle"
    /\ lpc' = "awaitSearch"
    /\ query' = q
    /\ UNCHANGED <<response, locations, weatherVars>>

\* the POST resolves with envelope r: the decoding, the loop, the return
SearchResponds(r) ==
    /\ lpc = "awaitSearch"
    /\ response' = r
    /\ LET out == Decode(r)
       IN  /\ lpc' = IF out.threw THEN "typeError" ELSE "returned"
           /\ locations' = out.locations
    /\ UNCHANGED <<query, weatherVars>>

\* the POST rejects: the rejection leaves fetchLocations uncaught
SearchFails ==
    /\ lpc = "awaitSearch"
    /\ lpc' = "rejected"
    /\ UNCHANGED <<query, response, locations, weatherVars>>

Next ==
    /\ \/ \E p \in PlaceIds : CallFetchWeather(p)
       \/ \E d \in Documents : PageArrives(d)
       \/ PageFails
    /\ UNCHANGED <<tuiVars, calendarVars, callVars, authVars>>

NextLocations ==
    /\ \/ \E q \in Queries : CallFetchLocations(q)
       \/ \E r \in Responses : SearchResponds(r)
       \/ SearchFails
    /\ UNCHANGED <<tuiVars, calendarVars, callVars, authVars>>

\* one invocation of fetchWeather
Spec == Init /\ [][Next]_vars

\* one invocation of fetchLocations
SpecLocations == Init /\ [][NextLocations]_vars

-----------------------------------------------------------------------------
(* weatherTUI: the command-line run *)

\* most places in a search response answered to the run
MaxCandidates == 4

\* minimist's conversion of one positional argument: a decimal numeral
\* becomes a number, anything else stays a string
ParseArg(text) ==
    IF text # <<>> /\ \A i \in DOMAIN text : text[i] \in Digits
    THEN Num(DigitsValue(text, 0))
    ELSE Str(text)

\* argv._[0]
QueryOf(args) == IF args = <<>> THEN Undefined ELSE ParseArg(args[1])

\* the positional arguments drawn: none, "", " ", a city, "0", "07"
Arguments == {<<>>, <<<<>>>>, <<<<" ">>>>, <<<<"Gary">>>>, <<<<"0">>>>, <<<<"0", "7">>>>}

CandidateIds == <<"p1", "p2", "p3", "p4", "p5", "p6">>
CandidateCities == <<"Gary", "Paris", "Lima", "Oslo", "Bonn", "Nice">>

\* the search responses drawn: n places, and the shapes that hold none
TUIResponses ==
    {<<LocationData(SubSeq(CandidateIds, 1, n), SubSeq(CandidateCities, 1, n))>> :
        n \in 0..MaxCandidates}
    \cup {<<NoLocation>>, <<NoData>>}

TUIDocuments == {BaseDocument, BlankDocument}

\* locations.slice(0, 3).map(...): the value of each choice
LocationChoices_All(locs) == locs

LocationChoices(locs) == SubSeq(locs, 1, IF Len(locs) < 3 THEN Len(locs) ELSE 3)

\* locationChoices.length > 1 && process.stdout.isTTY
Prompts(choices, tty) == Len(choices) > 1 /\ tty

\* lines 457-470: the arguments are read; without a query the run prints
\* the usage message and exits with status 1, else it calls fetchLocations
TUIStart(args, calendar, tty) ==
    /\ tpc = "start"
    /\ positional' = args
    /\ toCalendar' = calendar
    /\ isTTY' = tty
    /\ IF Falsy(QueryOf(args))
       THEN /\ effects' = Append(effects, "Please provide a city or zip code.")
            /\ tpc' = "exit1"
            /\ UNCHANGED <<locationVars, weatherVars>>
       ELSE /\ CallFetchLocations(QueryOf(args))
            /\ tpc' = "resolve"
            /\ UNCHANGED effects
    /\ UNCHANGED <<locationChoices, selectedLocation, dpc, events, calendarVars,
                   callVars, authVars>>

\* lines 470-499 after fetchLocations resolved: no choice ends the run with
\* status 1, several choices on a terminal open the prompt, else the first
\* choice is selected and fetchWeather called
TUILocationsReturned ==
    /\ tpc = "resolve"
    /\ lpc = "returned"
    /\ LET choices == LocationChoices(locations)
       IN  /\ locationChoices' = choices
           /\ IF Len(choices) = 0
              THEN /\ effects' = Append(effects, "No locations found for the given query.")
                   /\ tpc' = "exit1"
                   /\ UNCHANGED <<selectedLocation, weatherVars, locationVars>>
              ELSE IF Prompts(choices, isTTY)
              THEN /\ effects' = Append(effects, "inquirer.prompt")
                   /\ tpc' = "prompt"
                   /\ UNCHANGED <<selectedLocation, weatherVars, locationVars>>
              ELSE /\ selectedLocation' = choices[1]
                   /\ CallFetchWeather(choices[1].placeId)
                   /\ tpc' = "fetch"
                   /\ UNCHANGED effects
    /\ UNCHANGED <<positional, toCalendar, isTTY, events, dpc, calendarVars, callVars,
                   authVars>>

\* the answer taken for the first choice whatever the user picked
TUIAnswer_IgnoresAnswer(i) ==
    /\ tpc = "prompt"
    /\ i \in DOMAIN locationChoices
    /\ selectedLocation' = locationChoices[i]
    /\ CallFetchWeather(locationChoices[1].placeId)
    /\ tpc' = "fetch"
    /\ UNCHANGED <<positional, toCalendar, isTTY, events, locationChoices, effects, dpc,
                   calendarVars, callVars, authVars>>

\* lines 486-499: the user picks choice i; fetchWeather is called with it
TUIAnswer(i) ==
    /\ tpc = "prompt"
    /\ i \in DOMAIN locationChoices
    /\ selectedLocation' = locationChoices[i]
    /\ CallFetchWeather(locationChoices[i].placeId)
    /\ tpc' = "fetch"
    /\ UNCHANGED <<positional, toCalendar, isTTY, events, locationChoices, effects, dpc,
                   calendarVars, callVars, authVars>>

\* console.error of the catch block, lines 520-522
Caught == Append(effects, "Error fetching weather data:")

\* the prompt rejects (it was closed): the catch block
TUIPromptFails ==
    /\ tpc = "prompt"
    /\ effects' = Caught
    /\ tpc' = "caught"
    /\ UNCHANGED <<positional, toCalendar, isTTY, events, locationChoices,
                   selectedLocation, dpc,
                   weatherVars, locationVars, calendarVars, callVars, authVars>>

\* lines 499-504 after fetchWeather resolved: displayWeather is called and
\* not awaited (it runs up to its import of chalk); with --calendar
\* getCalendarClient is called, which runs up to its first readFile
TUIWeatherReturned ==
    /\ tpc = "fetch"
    /\ wpc = "returned"
    /\ dpc' = "importing"
    /\ IF toCalendar
       THEN gpc' = "readCredentials" /\ tpc' = "calendar"
       ELSE gpc' = gpc /\ tpc' = "done"
    /\ UNCHANGED <<positional, toCalendar, isTTY, events, locationChoices,
                   selectedLocation,
                   effects, cached, tokens, tokenFile, client,
                   weatherVars, locationVars, callVars, authVars>>

\* displayWeather after chalk was imported: the console.log lines
DisplayPrints ==
    /\ dpc = "importing"
    /\ dpc' = "printed"
    /\ effects' = Append(effects, "displayWeather")
    /\ UNCHANGED <<tpc, positional, toCalendar, isTTY, events, locationChoices,
                   selectedLocation,
                   weatherVars, locationVars, calendarVars, callVars, authVars>>

\* displayWeather rejects (the import of chalk fails): nothing awaits its
\* promise, so the rejection is unhandled; the runtime either ends the
\* process at once (exits) or only warns
DisplayFails(exits) ==
    /\ dpc = "importing"
    /\ dpc' = "rejected"
    /\ effects' = Append(effects, "unhandled rejection")
    /\ tpc' = IF exits THEN "crashed" ELSE tpc
    /\ gpc' = IF exits /\ gpc \in {"readCredentials", "readToken", "auth", "write"}
              THEN "killed" ELSE gpc
    /\ UNCHANGED <<positional, toCalendar, isTTY, events, locationChoices,
                   selectedLocation, cached, tokens, tokenFile, client,
                   weatherVars, locationVars, callVars, authVars>>

\* the awaited call rejected or threw: the catch block logs the error and
\* the run ends
TUICatch_Continues ==
    /\ \/ tpc = "resolve" /\ lpc \in {"rejected", "typeError"}
       \/ tpc = "fetch" /\ wpc = "rejected"
       \/ tpc = "calendar" /\ gpc = "rejected"
    /\ effects' = Caught
    /\ dpc' = "importing"
    /\ tpc' = "done"
    /\ UNCHANGED <<positional, toCalendar, isTTY, events, locationChoices,
                   selectedLocation,
                   weatherVars, locationVars, calendarVars, callVars, authVars>>

TUICatch ==
    /\ \/ tpc = "resolve" /\ lpc \in {"rejected", "typeError"}
       \/ tpc = "fetch" /\ wpc = "rejected"
       \/ tpc = "calendar" /\ gpc = "rejected"
    /\ effects' = Caught
    /\ tpc' = "caught"
    /\ UNCHANGED <<positional, toCalendar, isTTY, events, locationChoices,
                   selectedLocation, dpc,
                   weatherVars, locationVars, calendarVars, callVars, authVars>>

\* a value inside a template literal
TemplateText(v) ==
    CASE v.kind = "null" -> <<"null">>
      [] v.kind = "undefined" -> <<"undefined">>
      [] v.kind = "NaN" -> <<"NaN">>
      [] v.kind = "number" -> <<ToString(v.val)>>
      [] v.kind = "string" -> v.val

\* the event built from the outlook's first day instead of today
Event_FromOutlook(name, today, next) ==
    LET day == IF next = <<>>
               THEN [tempHigh |-> Null, tempLow |-> Null, condition |-> Null]
               ELSE next[1]
    IN  [summary |-> <<"Weather - ">> \o name,
         description |-> <<"High ">> \o TemplateText(day.tempHigh) \o <<"°F / Low ">>
                           \o TemplateText(day.tempLow) \o <<"°F", "\n">>
                           \o TemplateText(day.condition),
         start |-> "today", end |-> "today"]

\* lines 505-511: the event (the dash of the summary stands for the en dash
\* of the source); both dates are the day of the run
Event(name, today, next) ==
    [summary |-> <<"Weather - ">> \o name,
     description |-> <<"High ">> \o TemplateText(today.tempHigh) \o <<"°F / Low ">>
                       \o TemplateText(today.tempLow) \o <<"°F", "\n">>
                       \o TemplateText(today.currentCondition),
     start |-> "today", end |-> "today"]

\* lines 505-516 after getCalendarClient resolved: the event is built and
\* calendar.events.insert called
TUICalendarReturned ==
    /\ tpc = "calendar"
    /\ gpc = "returned"
    /\ effects' = Append(effects, "calendar.events.insert")
    /\ events' = Append(events,
                        [calendarId |-> "primary",
                         requestBody |-> Event(selectedLocation.name, weather.today,
                                               weather.next)])
    /\ tpc' = "insert"
    /\ UNCHANGED <<positional, toCalendar, isTTY, locationChoices,
                   selectedLocation, dpc,
                   weatherVars, locationVars, calendarVars, callVars, authVars>>

\* the insert resolves: line 517
InsertResolves ==
    /\ tpc = "insert"
    /\ effects' = Append(effects, "Added to Google Calendar")
    /\ tpc' = "done"
    /\ UNCHANGED <<positional, toCalendar, isTTY, events, locationChoices,
                   selectedLocation, dpc,
                   weatherVars, locationVars, calendarVars, callVars, authVars>>

\* the insert rejects: the catch block
InsertRejects ==
    /\ tpc = "insert"
    /\ effects' = Caught
    /\ tpc' = "caught"
    /\ UNCHANGED <<positional, toCalendar, isTTY, events, locationChoices,
                   selectedLocation, dpc,
                   weatherVars, locationVars, calendarVars, callVars, authVars>>

-----------------------------------------------------------------------------
(* getCalendarClient (googleAuth.ts) *)

\* what credentials.json may hold: an installed-app client, nothing (the
\* read rejects), or text that is not such a client
CredentialFiles == {"installed", "missing", "malformed"}

Tokens == {[refresh_token |-> "r1"], [refresh_token |-> "r2"]}

\* JSON.stringify of a token object, and JSON.parse of a file's text
JSONStringify(t) == <<"json", t>>
Parses(text) == Len(text) = 2 /\ text[1] = "json"
JSONParse(text) == text[2]

\* .gcal_token.json: absent (readFile rejects), not JSON, or a stored token
NoFile == <<"ENOENT">>
NotJSON == <<"{">>
TokenFiles == {NoFile, NotJSON} \cup {JSONStringify(t) : t \in Tokens}

\* google.calendar({version: 'v3', auth}) over credentials set on the client
Client(credentials) == [version |-> "v3", credentials |-> credentials]

\* line 18-19: credentials.json is read and parsed outside any try
ReadCredentials(c) ==
    /\ gpc = "readCredentials"
    /\ gpc' = IF c = "installed" THEN "readToken" ELSE "rejected"
    /\ UNCHANGED <<cached, tokens, tokenFile, client,
                   tuiVars, weatherVars, locationVars, callVars, authVars>>

\* the cached token ignored: the interactive flow is always started
ReadToken_AlwaysAuth(text) ==
    /\ gpc = "readToken"
    /\ cached' = text
    /\ effects' = Append(effects, "runInteractiveAuth")
    /\ gpc' = "auth"
    /\ UNCHANGED <<tokens, tokenFile, client, tpc, positional, toCalendar, isTTY, events,
                   locationChoices, selectedLocation, dpc,
                   weatherVars, locationVars, callVars, authVars>>

\* lines 22-32: the token file is read and parsed inside the try; with a
\* token the client is returned, else runInteractiveAuth is called
ReadToken(text) ==
    /\ gpc = "readToken"
    /\ cached' = text
    /\ IF Parses(text)
       THEN /\ client' = Client(JSONParse(text))
            /\ gpc' = "returned"
            /\ UNCHANGED effects
       ELSE /\ effects' = Append(effects, "runInteractiveAuth")
            /\ gpc' = "auth"
            /\ UNCHANGED client
    /\ UNCHANGED <<tokens, tokenFile, tpc, positional, toCalendar, isTTY, events,
                   locationChoices, selectedLocation, dpc,
                   weatherVars, locationVars, callVars, authVars>>

\* lines 32-36: the flow resolves with tokens t; writeFile is called
AuthResolves(t) ==
    /\ gpc = "auth"
    /\ tokens' = t
    /\ effects' = Append(effects, "writeFile")
    /\ gpc' = "write"
    /\ UNCHANGED <<cached, tokenFile, client, tpc, positional, toCalendar, isTTY, events,
                   locationChoices, selectedLocation, dpc,
                   weatherVars, locationVars, callVars, authVars>>

\* the flow rejects: the rejection leaves getCalendarClient uncaught
AuthRejects ==
    /\ gpc = "auth"
    /\ gpc' = "rejected"
    /\ UNCHANGED <<cached, tokens, tokenFile, client,
                   tuiVars, weatherVars, locationVars, callVars, authVars>>

\* lines 36-39: the write resolves; the log line and the client
TokenWritten ==
    /\ gpc = "write"
    /\ tokenFile' = JSONStringify(tokens)
    /\ effects' = Append(effects, "Token stored to")
    /\ client' = Client(tokens)
    /\ gpc' = "returned"
    /\ UNCHANGED <<cached, tokens, tpc, positional, toCalendar, isTTY, events,
                   locationChoices, selectedLocation, dpc,
                   weatherVars, locationVars, callVars, authVars>>

\* the write rejects, leaving the file untouched or cut short
WriteFails ==
    /\ gpc = "write"
    /\ tokenFile' \in {tokenFile, NotJSON}
    /\ gpc' = "rejected"
    /\ UNCHANGED <<cached, tokens, client,
                   tuiVars, weatherVars, locationVars, callVars, authVars>>

NextTUI ==
    \/ \E args \in Arguments, calendar \in BOOLEAN, tty \in BOOLEAN :
          TUIStart(args, calendar, tty)
    \/ /\ \/ \E r \in TUIResponses : SearchResponds(r)
          \/ SearchFails
          \/ \E d \in TUIDocuments : PageArrives(d)
          \/ PageFails
       /\ UNCHANGED <<tuiVars, calendarVars, callVars, authVars>>
    \/ TUILocationsReturned
    \/ \E i \in DOMAIN locationChoices : TUIAnswer(i)
    \/ TUIPromptFails
    \/ TUIWeatherReturned
    \/ DisplayPrints
    \/ \E exits \in BOOLEAN : DisplayFails(exits)
    \/ TUICatch
    \/ \E c \in CredentialFiles : ReadCredentials(c)
    \/ \E text \in TokenFiles : ReadToken(text)
    \/ \E t \in Tokens : AuthResolves(t)
    \/ AuthRejects
    \/ TokenWritten
    \/ WriteFails
    \/ TUICalendarReturned
    \/ InsertResolves
    \/ InsertRejects

\* one run of weatherTUI
SpecTUI == Init /\ [][NextTUI]_vars

-----------------------------------------------------------------------------
(* Several invocations of fetchLocations and fetchWeather in one process.  *)
(* Each invocation has its own locals (calls[c]); what they share is the   *)
(* network (net) and console.error (stream).                               *)

ENDPOINTS ==
    [location |-> "https://weather.com/api/v1/p/redux-dal",
     weatherToday |-> "https://weather.com/weather/today"]

\* axios.post(ENDPOINTS.location, [{name, params}])
SearchRequest(q) ==
    [method |-> "POST", url |-> <<ENDPOINTS.location>>,
     body |-> <<[name |-> "getSunV3LocationSearchUrlConfig",
                 params |-> [query |-> q, language |-> "en-US",
                             locationType |-> "locale"]]>>]

\* axios.get(`${ENDPOINTS.weatherToday}/l/${placeId}`)
PageRequest(p) ==
    [method |-> "GET", url |-> <<ENDPOINTS.weatherToday, "/l/", p>>, body |-> <<>>]

CallDocuments ==
    {BaseDocument, BlankDocument,
     [BaseDocument EXCEPT !.followingDays = <<FullDay, OneTempDay>>]}
CallResponses == {<<LocationData(<<"p1">>, <<"Gary">>)>>, <<NoPlaceId>>, <<NoData>>}

\* invocation c calls fetchLocations(q): runs up to the await of axios.post
InvokeFetchLocations(c, q) ==
    /\ calls[c].pc = "idle"
    /\ calls' = [calls EXCEPT ![c] = [NoCall EXCEPT !.fn = "fetchLocations",
                                                    !.pc = "awaitSearch", !.arg = q]]
    /\ net' = Append(net, [call |-> c, request |-> SearchRequest(q)])
    /\ UNCHANGED <<stream, weatherVars, locationVars, tuiVars, calendarVars, authVars>>

\* a module-level cache: a placeId fetched before is answered from it
InvokeFetchWeather_Cached(c, p) ==
    /\ calls[c].pc = "idle"
    /\ IF \E e \in CallIds : /\ calls[e].fn = "fetchWeather" /\ calls[e].arg = p
                             /\ calls[e].pc = "returned"
       THEN /\ calls' = [calls EXCEPT ![c] =
                           calls[CHOOSE e \in CallIds :
                                    /\ calls[e].fn = "fetchWeather" /\ calls[e].arg = p
                                    /\ calls[e].pc = "returned"]]
            /\ UNCHANGED net
       ELSE /\ calls' = [calls EXCEPT ![c] = [NoCall EXCEPT !.fn = "fetchWeather",
                                                           !.pc = "awaitPage", !.arg = p]]
            /\ net' = Append(net, [call |-> c, request |-> PageRequest(p)])
    /\ UNCHANGED <<stream, weatherVars, locationVars, tuiVars, calendarVars, authVars>>

\* invocation c calls fetchWeather(p): runs up to the await of axios.get
InvokeFetchWeather(c, p) ==
    /\ calls[c].pc = "idle"
    /\ calls' = [calls EXCEPT ![c] = [NoCall EXCEPT !.fn = "fetchWeather",
                                                    !.pc = "awaitPage", !.arg = p]]
    /\ net' = Append(net, [call |-> c, request |-> PageRequest(p)])
    /\ UNCHANGED <<stream, weatherVars, locationVars, tuiVars, calendarVars, authVars>>

\* the POST of invocation c resolves with r: decoding, loop and return
SearchAnswers(c, r) ==
    /\ calls[c].pc = "awaitSearch"
    /\ LET out == Decode(r)
       IN  calls' = [calls EXCEPT ![c].input = r,
                                  ![c].result = out.locations,
                                  ![c].pc = IF out.threw THEN "typeError" ELSE "returned"]
    /\ UNCHANGED <<net, stream, weatherVars, locationVars, tuiVars, calendarVars, authVars>>

\* the warnings of one extraction as console.error receives them
Emitted(c, warnings) == [i \in DOMAIN warnings |-> [call |-> c, warning |-> warnings[i]]]

\* the next array declared at module level: every invocation appends to it
PageAnswers_SharedNext(c, d) ==
    /\ calls[c].pc = "awaitPage"
    /\ LET out == Extract(d)
           earlier == {e \in CallIds : calls[e].fn = "fetchWeather"
                                         /\ calls[e].pc = "returned"}
           before == IF earlier = {} THEN <<>>
                     ELSE calls[CHOOSE e \in earlier : TRUE].result.next
       IN  /\ calls' = [calls EXCEPT ![c].input = d,
                                     ![c].result = [today |-> out.today,
                                                    next |-> before \o out.next],
                                     ![c].pc = "returned"]
           /\ stream' = stream \o Emitted(c, out.diag)
    /\ UNCHANGED <<net, weatherVars, locationVars, tuiVars, calendarVars, authVars>>

\* the GET of invocation c resolves with d: load, extraction and return, in
\* one run of the event loop
PageAnswers(c, d) ==
    /\ calls[c].pc = "awaitPage"
    /\ LET out == Extract(d)
       IN  /\ calls' = [calls EXCEPT ![c].input = d,
                                     ![c].result = [today |-> out.today, next |-> out.next],
                                     ![c].pc = "returned"]
           /\ stream' = stream \o Emitted(c, out.diag)
    /\ UNCHANGED <<net, weatherVars, locationVars, tuiVars, calendarVars, authVars>>

\* the request of invocation c rejects
RequestFails(c) ==
    /\ calls[c].pc \in {"awaitSearch", "awaitPage"}
    /\ calls' = [calls EXCEPT ![c].pc = "rejected"]
    /\ UNCHANGED <<net, stream, weatherVars, locationVars, tuiVars, calendarVars, authVars>>

NextCalls ==
    \E c \in CallIds :
        \/ \E q \in Queries : InvokeFetchLocations(c, q)
        \/ \E p \in PlaceIds : InvokeFetchWeather(c, p)
        \/ \E r \in CallResponses : SearchAnswers(c, r)
        \/ \E d \in CallDocuments : PageAnswers(c, d)
        \/ RequestFails(c)

\* invocations started and answered in any order
SpecCalls == Init /\ [][NextCalls]_vars

-----------------------------------------------------------------------------
(* runInteractiveAuth (googleAuth.ts): the promise, the local server and   *)
(* the request handler.  SpecTUI takes the flow by its outcome             *)
(* (AuthResolves, AuthRejects); here it is modelled step by step.          *)

\* most requests the local server receives
MaxRequests == 3

Codes == {"code1", "code2"}

Logged(what, t) == [what |-> what, tokens |-> t]

\* resolve and reject called on a settled promise overwriting its outcome
Settle_LastWins(p, state, value) == [state |-> state, value |-> value]

\* resolve(value) / reject(value): only a pending promise is settled
Settle(p, state, value) ==
    IF p.state = "pending" THEN [state |-> state, value |-> value] ELSE p

\* lines 46-50 and 83: the promise is created, the server created and
\* listen(0, ...) called; redirectUri is still ''
CallRunInteractiveAuth ==
    /\ promise.state = "none"
    /\ promise' = [state |-> "pending", value |-> NoTokens]
    /\ server' = "created"
    /\ UNCHANGED <<redirectUri, exchanges, authLog,
                   weatherVars, locationVars, tuiVars, calendarVars, callVars>>

\* lines 83-97: the listen callback sets redirectUri and opens the browser
ServerListening ==
    /\ server = "created"
    /\ server' = "listening"
    /\ redirectUri' = "http://127.0.0.1:port"
    /\ UNCHANGED <<promise, exchanges, authLog,
                   weatherVars, locationVars, tuiVars, calendarVars, callVars>>

Received == Cardinality({i \in DOMAIN authLog :
                            authLog[i].what \in {"error", "none", "code", "threw"}})

\* lines 56-61: a request with an error parameter
RequestWithError ==
    /\ server = "listening"
    /\ Received < MaxRequests
    /\ promise' = Settle(promise, "rejected", NoTokens)
    /\ server' = "closed"
    /\ authLog' = Append(authLog, Logged("error", NoTokens))
    /\ UNCHANGED <<redirectUri, exchanges,
                   weatherVars, locationVars, tuiVars, calendarVars, callVars>>

\* lines 62-65: a request with neither error nor code
RequestWithoutCode ==
    /\ server = "listening"
    /\ Received < MaxRequests
    /\ authLog' = Append(authLog, Logged("none", NoTokens))
    /\ UNCHANGED <<promise, server, redirectUri, exchanges,
                   weatherVars, locationVars, tuiVars, calendarVars, callVars>>

\* lines 67-69: a request with a code; getToken is called and awaited
RequestWithCode(code) ==
    /\ server = "listening"
    /\ Received < MaxRequests
    /\ exchanges' = exchanges \cup {[request |-> Received + 1, code |-> code,
                                     redirectUri |-> redirectUri]}
    /\ authLog' = Append(authLog, Logged("code", NoTokens))
    /\ UNCHANGED <<promise, server, redirectUri,
                   weatherVars, locationVars, tuiVars, calendarVars, callVars>>

\* lines 52-53 and 75-78: the handler throws before any await (the request
\* target does not parse)
RequestThrows ==
    /\ server = "listening"
    /\ Received < MaxRequests
    /\ promise' = Settle(promise, "rejected", NoTokens)
    /\ server' = "closed"
    /\ authLog' = Append(authLog, Logged("threw", NoTokens))
    /\ UNCHANGED <<redirectUri, exchanges,
                   weatherVars, locationVars, tuiVars, calendarVars, callVars>>

\* lines 69-74: getToken resolves with tokens t
ExchangeSucceeds(x, t) ==
    /\ x \in exchanges
    /\ exchanges' = exchanges \ {x}
    /\ server' = "closed"
    /\ promise' = Settle(promise, "resolved", t)
    /\ authLog' = Append(authLog, Logged("exchanged", t))
    /\ UNCHANGED <<redirectUri,
                   weatherVars, locationVars, tuiVars, calendarVars, callVars>>

\* lines 69 and 75-78: getToken rejects
ExchangeFails(x) ==
    /\ x \in exchanges
    /\ exchanges' = exchanges \ {x}
    /\ promise' = Settle(promise, "rejected", NoTokens)
    /\ server' = "closed"
    /\ authLog' = Append(authLog, Logged("exchange failed", NoTokens))
    /\ UNCHANGED <<redirectUri,
                   weatherVars, locationVars, tuiVars, calendarVars, callVars>>

NextAuth ==
    \/ CallRunInteractiveAuth
    \/ ServerListening
    \/ RequestWithError
    \/ RequestWithoutCode
    \/ \E code \in Codes : RequestWithCode(code)
    \/ RequestThrows
    \/ \E x \in exchanges, t \in Tokens : ExchangeSucceeds(x, t)
    \/ \E x \in exchanges : ExchangeFails(x)

\* one invocation of runInteractiveAuth
SpecAuth == Init /\ [][NextAuth]_vars

-----------------------------------------------------------------------------
(* What the claims read *)

Returned == wpc = "returned"

\* how many warnings of the stream satisfy Test
Warnings(Test(_)) == Cardinality({i \in DOMAIN diag : Test(diag[i])})

ExactlyOneWarning(selector, field) ==
    Warnings(LAMBDA w : w = Warning(selector, field)) = 1

\* row k of the today card matches the active-period selector
RowActive(doc, k) == \E c \in DOMAIN doc.today : k <= Len(doc.today[c]) /\ doc.today[c][k].active

ActiveRows(doc) == {k \in 1..4 : RowActive(doc, k)}

Min(S) == CHOOSE k \in S : \A j \in S : k <= j

\* the lookups made through getText, getTemp and getPercentage: the field
\* filled, the selector queried, the number of nodes matched, the value
LeafLookups ==
    LET t == weather.today
        d == page.todayDetails
        L(f, s, nodes, v) == [field |-> f, selector |-> s, matched |-> Len(nodes), value |-> v]
    IN  {L(Field("today", 0, "currentTemp"), "currentTemp", page.currentTemp, t.currentTemp),
         L(Field("today", 0, "currentFeltTemp"), "temperature", Find(d, "temperature"),
           t.currentFeltTemp),
         L(Field("today", 0, "currentCondition"), "currentCondition", page.currentCondition,
           t.currentCondition),
         L(Field("today", 0, "currentTime"), "time", page.time, t.currentTime),
         L(Field("today", 0, "currentUvIndex"), "uvIndex", Find(d, "uvIndex"), t.currentUvIndex),
         L(Field("today", 0, "currentWind"), "wind", Find(d, "wind"), t.currentWind),
         L(Field("today", 0, "currentHumidity"), "percentage", Find(d, "percentage"),
           t.currentHumidity)}
        \cup UNION {
          {L(Field("segment", k, "temp"), "temperature",
             Find(SegmentEl(page, k), "temperature"), segs[k].temp),
           L(Field("segment", k, "condition"), "condition",
             Find(SegmentEl(page, k), "condition"), segs[k].condition),
           L(Field("segment", k, "rain"), "chanceOfRain",
             Find(SegmentEl(page, k), "chanceOfRain"), segs[k].rain)} : k \in 1..4}
        \cup UNION {
          {L(Field("next", i, "date"), "h3 span", OutlookRows(page)[i].date,
             weather.next[i].date),
           L(Field("next", i, "condition"), "condition", OutlookRows(page)[i].condition,
             weather.next[i].condition),
           L(Field("next", i, "chanceOfRain"), "chanceOfRain",
             OutlookRows(page)[i].chanceOfRain, weather.next[i].chanceOfRain)} :
          i \in DOMAIN weather.next}

\* the first/last temperature lookups behind the high and low fields
HighLowLookups ==
    LET L(f, s, nodes, v) == [field |-> f, selector |-> s, matched |-> Len(nodes), value |-> v]
    IN  {L(Field("today", 0, "tempHigh"), "temperature",
           Find(page.todayDetails, "temperature"), weather.today.tempHigh),
         L(Field("today", 0, "tempLow"), "temperature",
           Find(page.todayDetails, "temperature"), weather.today.tempLow)}
        \cup UNION {
          {L(Field("next", i, "tempHigh"), "temperature", OutlookRows(page)[i].temperature,
             weather.next[i].tempHigh),
           L(Field("next", i, "tempLow"), "temperature", OutlookRows(page)[i].temperature,
             weather.next[i].tempLow)} : i \in DOMAIN weather.next}

\* the container and collection lookups: what is queried and how many
\* nodes match
ContainerLookups ==
    {[field |-> Field("today", 0, "todayDetailsCard"), selector |-> "todayDetails",
      matched |-> Len(page.todayDetails)],
     [field |-> Field("next", 0, "followingDays"), selector |-> "followingDays",
      matched |-> Len(page.followingDays)]}
    \cup {[field |-> Field("segment", k, "segmentEl"), selector |-> "today li:nth-child",
           matched |-> Len(SegmentEl(page, k))] : k \in 1..4}

\* every temperature field of the result
TemperatureFields ==
    {weather.today.tempHigh, weather.today.tempLow, weather.today.currentTemp,
     weather.today.currentFeltTemp, weather.today.morningTemperature,
     weather.today.afternoonTemperature, weather.today.eveningTemperature,
     weather.today.overnightTemperature}
    \cup {weather.next[i].tempHigh : i \in DOMAIN weather.next}
    \cup {weather.next[i].tempLow : i \in DOMAIN weather.next}

-----------------------------------------------------------------------------
(* C1 - as claimed: every lookup that matches zero nodes, leaf, container  *)
(* or collection, leaves its field null (an empty list for the outlook)    *)
(* and emits exactly one warning naming the missed selector.               *)
C1_EveryMissedLookupWarns ==
    Returned =>
        /\ \A l \in LeafLookups \cup HighLowLookups :
              l.matched = 0 => IsNull(l.value) /\ ExactlyOneWarning(l.selector, l.field)
        /\ \A l \in ContainerLookups :
              l.matched = 0 => ExactlyOneWarning(l.selector, l.field)
        /\ page.followingDays = <<>> => weather.next = <<>>

(* C1 - what the code does: the lookups made through getText, getTemp and  *)
(* getPercentage warn exactly once when they match nothing and never       *)
(* otherwise; the high/low, container and collection lookups yield null    *)
(* or the empty list without any warning.                                  *)
C1_OnlyHelperLookupsWarn ==
    Returned =>
        /\ \A l \in LeafLookups :
              /\ l.matched = 0 => IsNull(l.value) /\ ExactlyOneWarning(l.selector, l.field)
              /\ l.matched > 0 => Warnings(LAMBDA w : w.field = l.field) = 0
        /\ \A l \in HighLowLookups :
              l.matched = 0 => IsNull(l.value) /\ Warnings(LAMBDA w : w.field = l.field) = 0
        /\ \A l \in ContainerLookups : Warnings(LAMBDA w : w.selector = l.selector) = 0
        /\ Len(diag) = Cardinality({l \in LeafLookups : l.matched = 0})

(* C2 - as claimed: every temperature field of the result is null or an    *)
(* integer, and a current-temperature node reading 72 and the degree glyph *)
(* gives 72.                                                               *)
C2_TemperatureNullOrInteger ==
    Returned =>
        /\ \A v \in TemperatureFields : IsNull(v) \/ IsInteger(v)
        /\ page.currentTemp = <<T72>> => weather.today.currentTemp = Num(72)

(* C3 - as claimed: a temperature node whose text is empty or only white   *)
(* space gives null, through getTemp and through the first/last lookups    *)
(* of the high and low alike.                                              *)
C3_BlankTextIsNull ==
    Returned =>
        /\ Trim(Concat(page.currentTemp)) = <<>> => IsNull(weather.today.currentTemp)
        /\ \A k \in 1..4 :
              Trim(Concat(Find(SegmentEl(page, k), "temperature"))) = <<>>
                  => IsNull(segs[k].temp)
        /\ Trim(FirstText(Find(page.todayDetails, "temperature"))) = <<>>
              => IsNull(weather.today.tempHigh)
        /\ Trim(LastText(Find(page.todayDetails, "temperature"))) = <<>>
              => IsNull(weather.today.tempLow)
        /\ \A i \in DOMAIN weather.next :
              /\ Trim(FirstText(OutlookRows(page)[i].temperature)) = <<>>
                    => IsNull(weather.next[i].tempHigh)
              /\ Trim(LastText(OutlookRows(page)[i].temperature)) = <<>>
                    => IsNull(weather.next[i].tempLow)

(* C4 - the active segment is the earliest of morning, afternoon, evening  *)
(* and overnight whose row matches the active-period selector, and null    *)
(* exactly when no row matches; rows flagged false, true, true, false give *)
(* Afternoon.                                                              *)
C4_EarliestFlaggedSegment ==
    Returned =>
        LET stage == weather.today.currentDayStage
        IN  /\ ActiveRows(page) = {} <=> IsNull(stage)
            /\ ActiveRows(page) # {} => stage = Str(<<SegmentNames[Min(ActiveRows(page))]>>)
            /\ ActiveRows(page) = {2, 3} => stage = Str(<<"Afternoon">>)

\* C4 - rows 2 and 3 are flagged and Afternoon is reported
C4_Witness ==
    /\ Returned
    /\ ActiveRows(page) = {2, 3}
    /\ weather.today.currentDayStage = Str(<<"Afternoon">>)

(* C5 - as claimed: at most one of the four segments is active, and the    *)
(* active segment reported, when there is one, is that segment.            *)
C5_AtMostOneActiveSegment ==
    Returned =>
        /\ Cardinality({k \in 1..4 : segs[k].active}) <= 1
        /\ ~IsNull(weather.today.currentDayStage) =>
              {SegmentNames[k] : k \in {j \in 1..4 : segs[j].active}}
                  = {weather.today.currentDayStage.val[1]}

(* C5 - amended: each segment's active flag is true exactly when its own   *)
(* row matches the active-period selector, so several can be true at       *)
(* once; the forecast carries no flag per segment, only the one reported   *)
(* active segment, which is null when no flag is true and otherwise names  *)
(* a segment whose flag is true and before which none is.                  *)
C5_ReportedSegmentIsEarliestActive ==
    Returned =>
        LET stage == weather.today.currentDayStage
        IN  /\ \A k \in 1..4 : segs[k].active <=> RowActive(page, k)
            /\ IsNull(stage) <=> \A k \in 1..4 : ~segs[k].active
            /\ ~IsNull(stage) =>
                  \E k \in 1..4 :
                      /\ stage.val = <<SegmentNames[k]>>
                      /\ segs[k].active
                      /\ \A j \in 1..(k - 1) : ~segs[j].active

\* C5 - several segment rows are flagged at once
C5_Witness ==
    /\ Returned
    /\ Cardinality({k \in 1..4 : segs[k].active}) >= 2
    /\ ~segs[1].active
    /\ ~IsNull(weather.today.currentDayStage)

\* the text nodes that are direct children of the node, concatenated
OwnText(node) ==
    Concat([i \in DOMAIN node |-> IF node[i].el THEN <<>> ELSE node[i].text])

(* C6 - getPercentage returns the trimmed text left in the matched node    *)
(* once its child elements are taken out (an element child followed by     *)
(* the text 20% gives 20%), and the document is the same after the         *)
(* extraction as before it, so a lookup repeated afterwards gives the same *)
(* result.                                                                 *)
C6_LeafTextAndDocumentUnchanged ==
    Returned =>
        /\ dom = page
        /\ \A k \in 1..4 :
              LET nodes == Find(SegmentEl(page, k), "chanceOfRain")
              IN  /\ Len(nodes) = 1 => segs[k].rain = Str(Trim(OwnText(nodes[1])))
                  /\ nodes = <<IconThenText>> => segs[k].rain = Str(<<"2", "0", "%">>)
        /\ \A k \in 1..4 :
              LET after == Find(SegmentEl(dom, k), "chanceOfRain")
                  before == Find(SegmentEl(page, k), "chanceOfRain")
              IN  [i \in DOMAIN after |-> NodeText(after[i])]
                    = [i \in DOMAIN before |-> NodeText(before[i])]
        /\ Extract(dom).today = weather.today
        /\ Extract(dom).next = weather.next

\* C6 - a precipitation node with an element child before its text was read
C6_Witness ==
    /\ Returned
    /\ \E k \in 1..4 :
          /\ Find(SegmentEl(page, k), "chanceOfRain") = <<IconThenText>>
          /\ segs[k].rain = Str(<<"2", "0", "%">>)
    /\ \E i \in DOMAIN page.todayDetails :
          page.todayDetails[i].percentage = <<IconThenText>>

(* C7 - as claimed: of n following-days rows the outlook keeps rows 1 and  *)
(* 2 (row 0 skipped), that is min(2, max(n - 1, 0)) entries, in order.     *)
C7_OutlookKeepsTwoDays ==
    Returned =>
        LET n == Len(page.followingDays)
            kept == IF n - 1 <= 0 THEN 0 ELSE IF n - 1 >= 2 THEN 2 ELSE n - 1
        IN  /\ Len(weather.next) = kept
            /\ \A i \in 1..kept :
                  weather.next[i] = OutlookDay(page.followingDays[i + 1], i).day

(* C8 - when no today card is in the document, fetchWeather still returns: *)
(* the twelve segment fields and the active segment are null and each of   *)
(* the twelve missed fields has exactly one warning, naming its selector;  *)
(* when no following-days row is in the document the outlook is empty.     *)
C8_MissingContainers ==
    Returned =>
        /\ page.today = <<>> =>
              /\ \A k \in 1..4 :
                    /\ IsNull(segs[k].temp) /\ IsNull(segs[k].condition) /\ IsNull(segs[k].rain)
                    /\ ExactlyOneWarning("temperature", Field("segment", k, "temp"))
                    /\ ExactlyOneWarning("condition", Field("segment", k, "condition"))
                    /\ ExactlyOneWarning("chanceOfRain", Field("segment", k, "rain"))
              /\ Warnings(LAMBDA w : w.field.part = "segment") = 12
              /\ \A v \in {weather.today.morningTemperature, weather.today.morningCondition,
                           weather.today.morningChanceOfRain,
                           weather.today.afternoonTemperature,
                           weather.today.afternoonCondition,
                           weather.today.afternoonChanceOfRain,
                           weather.today.eveningTemperature, weather.today.eveningCondition,
                           weather.today.eveningChanceOfRain,
                           weather.today.overnightTemperature,
                           weather.today.overnightCondition,
                           weather.today.overnightChanceOfRain,
                           weather.today.currentDayStage} : IsNull(v)
        /\ page.followingDays = <<>> => weather.next = <<>>

\* C8 - a document with neither container was extracted
C8_Witness ==
    /\ Returned
    /\ page.today = <<>>
    /\ page.followingDays = <<>>
    /\ page.currentTemp # <<>>

-----------------------------------------------------------------------------
\* the search call was answered and fetchLocations ran to its end
Answered == lpc \in {"returned", "typeError"}

(* C9 - as claimed: a response with more than one key under the operation  *)
(* name never yields a place list: fetchLocations fails with a decode      *)
(* error that names the ambiguity.                                         *)
C9_AmbiguousEnvelopeRejected ==
    Answered /\ Len(response) > 1 => lpc # "returned" /\ locations = <<>>

\* the keyed value holds placeId, city, adminDistrict and country in parallel
Parallel(v) ==
    /\ v.hasData /\ v.hasLocation /\ v.hasPlaceId
    /\ Len(v.city) = Len(v.placeId)
    /\ Len(v.adminDistrict) = Len(v.placeId)
    /\ Len(v.country) = Len(v.placeId)

(* C10 - for parallel arrays the result has one place per placeId, the     *)
(* i-th made of placeId[i] and of a name built from city[i],               *)
(* adminDistrict[i] and country[i]: order kept, nothing dropped and        *)
(* duplicates kept.                                                        *)
C10_PositionalProjection ==
    Answered /\ response # <<>> /\ Parallel(response[1]) =>
        LET raw == response[1]
        IN  /\ lpc = "returned"
            /\ Len(locations) = Len(raw.placeId)
            /\ \A i \in DOMAIN locations :
                  /\ locations[i].placeId = raw.placeId[i]
                  /\ locations[i].name
                       = <<raw.city[i], ", ", raw.adminDistrict[i], ", ", raw.country[i]>>

\* C10 - two places with the same placeId and different cities were returned
C10_Witness ==
    /\ lpc = "returned"
    /\ response # <<>> /\ Parallel(response[1])
    /\ Len(locations) = 2
    /\ locations[1].placeId = locations[2].placeId
    /\ locations[1].name # locations[2].name

-----------------------------------------------------------------------------
\* the keyed value of the envelope: dalResponse[dynamicKey]
Keyed == response[1]

-----------------------------------------------------------------------------
\* normalizeTemperature of the first and of the last node of a selection,
\* "" standing for the text of an empty selection
HighOf(nodes) == normalizeTemperature(IF nodes = <<>> THEN <<>> ELSE Head(nodes))
LowOf(nodes) == normalizeTemperature(IF nodes = <<>> THEN <<>> ELSE nodes[Len(nodes)])

\* the temperature-leaf nodes inside the today-details container
DetailTemps == Concat([i \in DOMAIN page.todayDetails |-> page.todayDetails[i].temperature])

(* C12 - today's high is the normalized first temperature node of the      *)
(* today-details container and today's low the normalized last one; each   *)
(* outlook row's high and low are the normalized first and last            *)
(* temperature node of that row, so a row with one node has high = low.    *)
C12_FirstIsHighLastIsLow ==
    Returned =>
        /\ weather.today.tempHigh = HighOf(DetailTemps)
        /\ weather.today.tempLow = LowOf(DetailTemps)
        /\ \A i \in DOMAIN weather.next :
              /\ weather.next[i].tempHigh = HighOf(page.followingDays[i + 1].temperature)
              /\ weather.next[i].tempLow = LowOf(page.followingDays[i + 1].temperature)
              /\ Len(page.followingDays[i + 1].temperature) = 1 =>
                    weather.next[i].tempHigh = weather.next[i].tempLow

\* C12 - three nodes 70, 72, 65 in the details, an outlook row listing
\* 65 before 72 and an outlook row with one node were extracted
C12_Witness ==
    /\ Returned
    /\ Len(DetailTemps) = 3
    /\ weather.today.tempHigh = Num(70) /\ weather.today.tempLow = Num(65)
    /\ \E i \in DOMAIN weather.next :
          weather.next[i].tempHigh = Num(65) /\ weather.next[i].tempLow = Num(72)
    /\ \E i \in DOMAIN weather.next : Len(page.followingDays[i + 1].temperature) = 1

-----------------------------------------------------------------------------
\* the k-th li of the today card, as a selection of at most one element
RowAt(doc, k) ==
    IF doc.today # <<>> /\ k <= Len(doc.today[1]) THEN <<doc.today[1][k]>> ELSE <<>>

\* the fields of a segment without its warnings
SegmentFields(s) ==
    [temp |-> s.temp, condition |-> s.condition, rain |-> s.rain, active |-> s.active]

\* the fields a row alone determines
FieldsOfRow(row, k) ==
    [temp |-> getTemp(Find(row, "temperature"), "temperature",
                      Field("segment", k, "temp")).val,
     condition |-> getText(Find(row, "condition"), "condition",
                           Field("segment", k, "condition")).val,
     rain |-> getPercentage(Find(row, "chanceOfRain"), "chanceOfRain",
                            Field("segment", k, "rain")).val,
     active |-> row # <<>> /\ row[1].active]

\* the page with row j of the today card replaced, and with the rows after
\* row k removed
WithRow(doc, j, row) == [doc EXCEPT !.today[1][j] = row]
CutAfter(doc, k) == [doc EXCEPT !.today[1] = SubSeq(doc.today[1], 1, k)]

(* C13 - segment k is read from the k-th row of the today card and from    *)
(* nothing else: its temperature, condition, rain chance and isActive are  *)
(* those of row k, isActive is true exactly when row k matches the         *)
(* active-period selector, and replacing another row or removing the rows  *)
(* after row k leaves them unchanged.                                      *)
C13_SegmentReadsItsOwnRow ==
    Returned =>
        \A k \in 1..4 :
            /\ SegmentFields(segs[k]) = FieldsOfRow(RowAt(page, k), k)
            /\ segs[k].active <=> RowActive(page, k)
            /\ page.today # <<>> =>
                  /\ \A j \in DOMAIN page.today[1] : \A row \in TodayRows :
                        j # k =>
                          SegmentFields(getSegmentData(WithRow(page, j, row), k))
                             = SegmentFields(segs[k])
                  /\ k <= Len(page.today[1]) =>
                        SegmentFields(getSegmentData(CutAfter(page, k), k))
                           = SegmentFields(segs[k])

\* C13 - four rows were extracted, the second the only active one and the
\* first of another content than the second
C13_Witness ==
    /\ Returned
    /\ page.today # <<>> /\ Len(page.today[1]) = 4
    /\ segs[2].active /\ ~segs[1].active /\ ~segs[3].active /\ ~segs[4].active
    /\ segs[1].temp # segs[2].temp
    /\ segs[1].condition # segs[2].condition

-----------------------------------------------------------------------------
\* the run did e to the outside
Did(e) == \E i \in DOMAIN effects : effects[i] = e

(* C14 - within a run the page fetch is issued only after the search call  *)
(* has completed and a place was selected, its argument is the selected    *)
(* place's placeId, the search is never in flight while a page fetch is,   *)
(* and nothing is extracted before the page fetch completed.               *)
C14_ResolveSelectFetchExtract ==
    /\ lpc = "awaitSearch" => wpc = "idle"
    /\ wpc # "idle" =>
          /\ lpc = "returned"
          /\ selectedLocation # NoLocationSelected
          /\ \E i \in DOMAIN locations : selectedLocation = locations[i]
          /\ placeId = selectedLocation.placeId
    /\ segs # <<>> \/ diag # <<>> \/ dpc # "idle" => wpc = "returned"
    /\ tpc \in {"start", "exit1"} => wpc = "idle"
    /\ tpc \in {"resolve", "prompt"} => wpc = "idle" /\ selectedLocation = NoLocationSelected

\* C14 - a run that prompted, fetched the page of the second choice and
\* extracted it
C14_Witness ==
    /\ wpc = "returned"
    /\ Did("inquirer.prompt")
    /\ Len(locations) > 2
    /\ selectedLocation = locations[2]
    /\ placeId = locations[2].placeId
    /\ locations[1].placeId # locations[2].placeId
    /\ segs # <<>>

(* C15 - a failed search call or page fetch leaves the function without a  *)
(* result, and the run executes no later stage: after a failed search no   *)
(* selection, page fetch, display or calendar insert; after a failed page  *)
(* fetch no display and no calendar insert.                                *)
C15_FailureEndsTheRun ==
    /\ lpc = "rejected" =>
          /\ locations = <<>> /\ response = <<>>
          /\ tpc \in {"resolve", "caught"}
          /\ locationChoices = <<>> /\ selectedLocation = NoLocationSelected
          /\ ~Did("inquirer.prompt")
          /\ wpc = "idle" /\ dpc = "idle" /\ gpc = "idle"
          /\ ~Did("displayWeather") /\ ~Did("calendar.events.insert")
    /\ wpc = "rejected" =>
          /\ segs = <<>> /\ diag = <<>> /\ weather = NoWeather
          /\ tpc \in {"fetch", "caught"}
          /\ dpc = "idle" /\ gpc = "idle"
          /\ ~Did("displayWeather") /\ ~Did("calendar.events.insert")

\* C15 - a run with --calendar whose page fetch failed after a prompt, ended
\* by the catch block
C15_Witness ==
    /\ wpc = "rejected"
    /\ tpc = "caught"
    /\ toCalendar
    /\ Did("inquirer.prompt")
    /\ Did("Error fetching weather data:")

\* no positional argument, or one that is empty or white space only
NoQuery(args) == args = <<>> \/ Trim(args[1]) = <<>>

(* C16 - as claimed: a run whose query is missing, empty or blank ends     *)
(* with exit status 1 and a message before any search call is issued, and  *)
(* a run whose search gave no candidate ends with exit status 1 and a      *)
(* message before any page fetch.                                          *)
C16_InputErrorsExitBeforeCalls ==
    /\ tpc # "start" /\ NoQuery(positional) =>
          /\ tpc = "exit1"
          /\ lpc = "idle"
          /\ effects = <<"Please provide a city or zip code.">>
    /\ tpc \notin {"start", "resolve"} /\ lpc = "returned" /\ locations = <<>> =>
          /\ tpc = "exit1"
          /\ wpc = "idle"
          /\ effects = <<"No locations found for the given query.">>

-----------------------------------------------------------------------------
\* what one invocation of fetchWeather returns and warns of when it runs
\* alone on document d, and what one of fetchLocations does on response r
AloneWeather(d) == [today |-> Extract(d).today, next |-> Extract(d).next]
AloneWarnings(d) == Extract(d).diag
AloneLocations(r) == Decode(r).locations

\* the warnings of the shared stream that invocation c emitted, in order
WarningsOf(c) ==
    LET mine == SelectSeq(stream, LAMBDA e : e.call = c)
    IN  [i \in DOMAIN mine |-> mine[i].warning]

\* the requests invocation c issued, in order
RequestsOf(c) ==
    LET mine == SelectSeq(net, LAMBDA e : e.call = c)
    IN  [i \in DOMAIN mine |-> mine[i].request]

(* C17 - whatever the order in which two invocations are started and       *)
(* answered, each returns the value it returns alone on its own response   *)
(* and the warnings it emitted are those it emits alone, in the same       *)
(* order; an invocation that has not extracted has emitted none.           *)
C17_InvocationsDoNotInterfere ==
    \A c \in CallIds :
        /\ calls[c].fn = "fetchWeather" /\ calls[c].pc = "returned" =>
              /\ calls[c].result = AloneWeather(calls[c].input)
              /\ WarningsOf(c) = AloneWarnings(calls[c].input)
        /\ calls[c].fn = "fetchLocations" /\ calls[c].pc \in {"returned", "typeError"} =>
              /\ calls[c].result = AloneLocations(calls[c].input)
              /\ calls[c].pc = "typeError" <=> Decode(calls[c].input).threw
        /\ ~(calls[c].fn = "fetchWeather" /\ calls[c].pc = "returned") => WarningsOf(c) = <<>>

\* C17 - invocation 1 was started first and answered last, both extracted
\* different documents for the same place and both emitted warnings
C17_Witness ==
    /\ calls[1].fn = "fetchWeather" /\ calls[2].fn = "fetchWeather"
    /\ calls[1].pc = "returned" /\ calls[2].pc = "returned"
    /\ net[1].call = 1
    /\ stream # <<>> /\ stream[1].call = 2 /\ stream[Len(stream)].call = 1
    /\ calls[1].input # calls[2].input
    /\ calls[1].result # calls[2].result

(* C18 - every invocation of fetchLocations has issued exactly one POST to *)
(* the search endpoint with its query, language en-US and locationType     *)
(* locale, every invocation of fetchWeather exactly one GET of the page of *)
(* its placeId, also when another invocation used the same argument, and   *)
(* what it returns is decoded from the answer to its own request.          *)
C18_OneRequestPerInvocation ==
    /\ Len(net) = Cardinality({c \in CallIds : calls[c].fn # "none"})
    /\ \A c \in CallIds :
        /\ calls[c].fn = "none" => RequestsOf(c) = <<>>
        /\ calls[c].fn = "fetchLocations" =>
              RequestsOf(c) =
                 <<[method |-> "POST", url |-> <<"https://weather.com/api/v1/p/redux-dal">>,
                    body |-> <<[name |-> "getSunV3LocationSearchUrlConfig",
                                params |-> [query |-> calls[c].arg, language |-> "en-US",
                                            locationType |-> "locale"]]>>]>>
        /\ calls[c].fn = "fetchWeather" =>
              RequestsOf(c) =
                 <<[method |-> "GET",
                    url |-> <<"https://weather.com/weather/today", "/l/", calls[c].arg>>,
                    body |-> <<>>]>>
        /\ calls[c].fn = "fetchWeather" /\ calls[c].pc = "returned" =>
              calls[c].result = AloneWeather(calls[c].input)
        /\ calls[c].fn = "fetchLocations" /\ calls[c].pc = "returned" =>
              calls[c].result = AloneLocations(calls[c].input)

\* C18 - fetchWeather was invoked twice for the same placeId: two equal
\* requests were issued and the two results differ
C18_Witness ==
    /\ calls[1].fn = "fetchWeather" /\ calls[2].fn = "fetchWeather"
    /\ calls[1].arg = calls[2].arg
    /\ calls[1].pc = "returned" /\ calls[2].pc = "returned"
    /\ Len(net) = 2
    /\ net[1].request = net[2].request
    /\ calls[1].result # calls[2].result

-----------------------------------------------------------------------------
(* C19 - the choices are the first three candidates in resolver order; the *)
(* selected place, and so the place fetched, is one of them; the prompt is *)
(* opened exactly when there is more than one candidate and the output is  *)
(* a terminal, and without a prompt the first candidate is selected.       *)
C19_SelectionAmongFirstThree ==
    /\ \A i \in DOMAIN locationChoices :
          i <= 3 /\ i <= Len(locations) /\ locationChoices[i] = locations[i]
    /\ selectedLocation # NoLocationSelected =>
          /\ \E i \in 1..3 : i <= Len(locations) /\ selectedLocation = locations[i]
          /\ ~Did("inquirer.prompt") => selectedLocation = locations[1]
    /\ wpc # "idle" => \E i \in 1..3 : i <= Len(locations) /\ placeId = locations[i].placeId
    /\ tpc \notin {"start", "resolve"} /\ lpc = "returned" =>
          (Did("inquirer.prompt") <=> Len(locations) > 1 /\ isTTY)
    /\ Did("inquirer.prompt") => lpc = "returned"

\* C19 - four candidates on a terminal: the user was prompted and the third
\* was fetched
C19_Witness ==
    /\ Len(locations) = 4
    /\ isTTY
    /\ Did("inquirer.prompt")
    /\ selectedLocation = locations[3]
    /\ wpc = "returned"

(* C20 - when the token file is read and parses, getCalendarClient returns *)
(* a client over the cached credentials without starting the interactive   *)
(* flow and without writing the token file; the flow is started only when  *)
(* the cached token cannot be used; the file is written only after the     *)
(* flow gave tokens, and a failed flow writes nothing and rejects.         *)
C20_CachedTokenReused ==
    /\ gpc \notin {"idle", "readCredentials", "readToken"} /\ Parses(cached) =>
          /\ gpc = "returned"
          /\ client = Client(JSONParse(cached))
          /\ ~Did("runInteractiveAuth")
          /\ ~Did("writeFile") /\ tokenFile = <<>>
    /\ Did("runInteractiveAuth") => cached # <<>> /\ ~Parses(cached)
    /\ Did("writeFile") \/ tokenFile # <<>> =>
          Did("runInteractiveAuth") /\ tokens \in Tokens
    /\ gpc = "returned" /\ Did("runInteractiveAuth") =>
          client = Client(tokens) /\ tokenFile = JSONStringify(tokens)
    /\ gpc = "rejected" /\ Did("runInteractiveAuth") /\ tokens = NoTokens =>
          ~Did("writeFile") /\ tokenFile = <<>>

\* C20 - the token file held the token r2 and the client was built from it
C20_Witness ==
    /\ gpc = "returned"
    /\ Parses(cached)
    /\ client = Client([refresh_token |-> "r2"])
    /\ ~Did("runInteractiveAuth")
    /\ tokenFile = <<>>

-----------------------------------------------------------------------------
\* JavaScript's a >= b on two field values that are not null: false as soon
\* as one of them is NaN
GreaterOrEqual(a, b) == IsInteger(a) /\ IsInteger(b) /\ a.val >= b.val

(* C22 - as claimed: in every forecast fetchWeather returns, when today's  *)
(* tempHigh and tempLow are both non-null, tempHigh >= tempLow.            *)
C22_HighNotBelowLow ==
    Returned /\ ~IsNull(weather.today.tempHigh) /\ ~IsNull(weather.today.tempLow) =>
        GreaterOrEqual(weather.today.tempHigh, weather.today.tempLow)

-----------------------------------------------------------------------------
\* the lookups made through getTemp: the field and the nodes matched
TempLookups ==
    {[field |-> Field("today", 0, "currentTemp"), nodes |-> page.currentTemp,
      value |-> weather.today.currentTemp],
     [field |-> Field("today", 0, "currentFeltTemp"),
      nodes |-> Find(page.todayDetails, "temperature"),
      value |-> weather.today.currentFeltTemp]}
    \cup {[field |-> Field("segment", k, "temp"),
           nodes |-> Find(SegmentEl(page, k), "temperature"),
           value |-> segs[k].temp] : k \in 1..4}

(* C23 - as claimed: a temperature read through getTemp whose selector     *)
(* matches one node or more equals the value read from one of the matched  *)
(* nodes alone, not a number parsed from the text of all of them.          *)
C23_TemperatureFromOneNode ==
    Returned =>
        \A l \in TempLookups :
            l.nodes # <<>> =>
                \E i \in DOMAIN l.nodes :
                    l.value = getTemp(<<l.nodes[i]>>, "temperature", l.field).val

-----------------------------------------------------------------------------
(* C21 - a run inserts at most one calendar event, only with the calendar  *)
(* flag set and only after fetchWeather returned in that run; the event's  *)
(* title is made of the selected place's name and its body of today's      *)
(* tempHigh, tempLow and current condition of the forecast returned.       *)
C21_OneEventFromTheForecast ==
    /\ Len(events) <= 1
    /\ Did("calendar.events.insert") <=> events # <<>>
    /\ Did("Added to Google Calendar") => events # <<>>
    /\ events # <<>> =>
          /\ toCalendar
          /\ wpc = "returned" /\ lpc = "returned" /\ gpc = "returned"
          /\ events[1].calendarId = "primary"
          /\ events[1].requestBody.summary = <<"Weather - ">> \o selectedLocation.name
          /\ events[1].requestBody.description
                = <<"High ">> \o TemplateText(weather.today.tempHigh) \o <<"°F / Low ">>
                    \o TemplateText(weather.today.tempLow) \o <<"°F", "\n">>
                    \o TemplateText(weather.today.currentCondition)

\* C21 - the event of the typical page for the second choice was inserted
C21_Witness ==
    /\ tpc = "done"
    /\ Len(events) = 1
    /\ Len(locations) > 1 /\ selectedLocation = locations[2]
    /\ events[1].requestBody.summary = <<"Weather - ", "Paris", ", ", "IN", ", ", "US">>
    /\ events[1].requestBody.description
          = <<"High ", "70", "°F / Low ", "65", "°F", "\n", "Sunny">>

-----------------------------------------------------------------------------
\* where the run did e
Position(e) == CHOOSE i \in DOMAIN effects : effects[i] = e

(* C24 - as claimed: in a run with the calendar flag, the display started  *)
(* by displayWeather has printed before the confirmation of the insert is  *)
(* printed and before the run ends, and a failure inside displayWeather    *)
(* ends in the catch block of weatherTUI, never as an unhandled rejection. *)
C24_DisplayAwaited ==
    toCalendar =>
        /\ Did("Added to Google Calendar") =>
              Did("displayWeather")
                 /\ Position("displayWeather") < Position("Added to Google Calendar")
        /\ tpc \in {"done", "caught"} /\ dpc # "idle" => dpc = "printed"
        /\ dpc = "rejected" => tpc = "caught" /\ Did("Error fetching weather data:")
        /\ ~Did("unhandled rejection")

-----------------------------------------------------------------------------
\* the entries of the log at which the handler calls resolve or reject
Settling == {"error", "threw", "exchanged", "exchange failed"}

\* the first such entry, 0 when there is none
FirstSettling ==
    LET at == {i \in DOMAIN authLog : authLog[i].what \in Settling}
    IN  IF at = {} THEN 0 ELSE CHOOSE i \in at : \A j \in at : i <= j

\* in every state of the flow
C25_Settled ==
    /\ promise.state = "pending" <=> server # "none" /\ FirstSettling = 0
    /\ promise.state = "pending" => server \in {"created", "listening"}
    /\ promise.state = "resolved" =>
          /\ authLog[FirstSettling] = Logged("exchanged", promise.value)
          /\ promise.value \in Tokens
          /\ \E i \in 1..(FirstSettling - 1) : authLog[i].what = "code"
    /\ promise.state = "rejected" =>
          /\ authLog[FirstSettling].what \in {"error", "threw", "exchange failed"}
          /\ promise.value = NoTokens
    /\ promise.state \in {"resolved", "rejected"} => server = "closed"
    /\ authLog # <<>> => server \in {"listening", "closed"} /\ redirectUri # ""
    /\ \A x \in exchanges : x.redirectUri # ""

\* in every step of the flow
C25_Step ==
    /\ promise.state \in {"resolved", "rejected"} => promise' = promise
    /\ Len(authLog') > Len(authLog) /\ authLog'[Len(authLog')].what = "none" =>
          promise' = promise /\ server' = server /\ server = "listening"

=============================================================================
